---------------------------- MODULE Spec2Model ----------------------------
(***************************************************************************)
(* A model of the car ranking system (src/DSA_main.py, with the quicksort  *)
(* of src/code.py): row cleaning, loading, the brand index, filtering,     *)
(* the recursive three-way quicksort, the result summary and the main      *)
(* loop of run.                                                            *)
(*                                                                         *)
(* Python strings are sequences of one-character strings, so that strip,   *)
(* lower, float() and int() are computed from the characters.  The         *)
(* numeric grammar covered is the one the enumerated inputs use:           *)
(* optional sign, decimal digits, an optional fraction, and the special    *)
(* words inf, infinity and nan (no exponents, no underscores).             *)
(***************************************************************************)
EXTENDS Integers, Sequences, FiniteSets, TLC

VARIABLES
    pc,             \* position of the running call
    file,           \* the csv file of the current load: whether it exists, and its rows
    row_idx,        \* number of rows load_data has consumed
    skipped_rows,   \* load_data's local counter
    cleaned,        \* outcome of the last _clean_row_data call
    load_result,    \* "none", "True", "False"; what load_data returned
    load_error,     \* exception that ended the row loop, "" if none
    loads,          \* number of load_data calls started
    cars_data,      \* self.cars_data
    cars_by_brand,  \* self.cars_by_brand
    selected_brand, \* run's selected_brand / filter_cars' brand argument
    cars_available, \* filter_cars' local, then run's local
    price_filter,   \* filter_cars' local: whether the price prompt was reached, and the stripped input
    year_filter,    \* filter_cars' local: whether the year prompt was reached, and the stripped input
    method,         \* menu key of the chosen ranking method
    reverse,        \* direction flag handed to quicksort
    arr,            \* the list handed to the outermost quicksort call
    stack,          \* quicksort's call stack, innermost frame last
    ret,            \* value returned by the last finished quicksort call
    max_depth,      \* deepest quicksort stack seen for the current sort
    sorted_cars,    \* run's local
    summary,        \* what display_results reported
    stats,          \* what _show_brand_statistics reported
    prompt,         \* the last prompt that read a line
    choice          \* the line read at that prompt (stripped)

vars == <<pc, file, row_idx, skipped_rows, cleaned, load_result, load_error,
          loads, cars_data, cars_by_brand, selected_brand, cars_available,
          price_filter, year_filter, method, reverse, arr, stack, ret,
          max_depth, sorted_cars, summary, stats, prompt, choice>>

loadVars   == <<file, row_idx, skipped_rows, cleaned, load_result, load_error,
                loads, cars_data, cars_by_brand>>
filterVars == <<selected_brand, cars_available, price_filter, year_filter>>
sortVars   == <<method, reverse, arr, stack, ret, max_depth, sorted_cars>>
showVars   == <<summary, stats>>
ioVars     == <<prompt, choice>>

(***************************************************************************)
(* Python strings and the built-in conversions                             *)
(***************************************************************************)
Digits == {"0", "1", "2", "3", "4", "5", "6", "7", "8", "9"}

DigitVal == ("0" :> 0) @@ ("1" :> 1) @@ ("2" :> 2) @@ ("3" :> 3) @@ ("4" :> 4)
            @@ ("5" :> 5) @@ ("6" :> 6) @@ ("7" :> 7) @@ ("8" :> 8) @@ ("9" :> 9)

UpperToLower ==
    ("A" :> "a") @@ ("B" :> "b") @@ ("C" :> "c") @@ ("D" :> "d") @@ ("E" :> "e")
    @@ ("F" :> "f") @@ ("G" :> "g") @@ ("H" :> "h") @@ ("I" :> "i") @@ ("J" :> "j")
    @@ ("K" :> "k") @@ ("L" :> "l") @@ ("M" :> "m") @@ ("N" :> "n") @@ ("O" :> "o")
    @@ ("P" :> "p") @@ ("Q" :> "q") @@ ("R" :> "r") @@ ("S" :> "s") @@ ("T" :> "t")
    @@ ("U" :> "u") @@ ("V" :> "v") @@ ("W" :> "w") @@ ("X" :> "x") @@ ("Y" :> "y")
    @@ ("Z" :> "z")

\* str.lower()
Lower(s) == [i \in 1..Len(s) |->
               IF s[i] \in DOMAIN UpperToLower THEN UpperToLower[s[i]] ELSE s[i]]

RECURSIVE StripLeft(_)
StripLeft(s) == IF s # <<>> /\ Head(s) = " " THEN StripLeft(Tail(s)) ELSE s

RECURSIVE StripRight(_)
StripRight(s) == IF s # <<>> /\ s[Len(s)] = " "
                 THEN StripRight(SubSeq(s, 1, Len(s) - 1)) ELSE s

\* str.strip()
Strip(s) == StripRight(StripLeft(s))

IsDigits(s) == Len(s) > 0 /\ \A i \in 1..Len(s) : s[i] \in Digits

RECURSIVE DigitsVal(_)
DigitsVal(s) == IF s = <<>> THEN 0
                ELSE DigitsVal(SubSeq(s, 1, Len(s) - 1)) * 10 + DigitVal[s[Len(s)]]

RECURSIVE Pow10(_)
Pow10(k) == IF k = 0 THEN 1 ELSE 10 * Pow10(k - 1)

\* Raw values: a string, None (a short csv row), or an int default of dict.get
Str(s)   == [t |-> "str", s |-> s, i |-> 0]
NoneVal  == [t |-> "none", s |-> <<>>, i |-> 0]
IntVal(n) == [t |-> "int", s |-> <<>>, i |-> n]

\* A float: finite (sign, numerator n over denominator d), infinite or nan
Fin(neg, n, d) == [k |-> "fin", neg |-> neg, n |-> n, d |-> d]
Inf(neg)       == [k |-> "inf", neg |-> neg, n |-> 0, d |-> 1]
NaN            == [k |-> "nan", neg |-> FALSE, n |-> 0, d |-> 1]

Ok(v)      == [exc |-> "", v |-> v]
Raise(e)   == [exc |-> e, v |-> 0]

DotAt(s) == IF \E i \in 1..Len(s) : s[i] = "."
            THEN CHOOSE i \in 1..Len(s) : s[i] = "." /\ \A j \in 1..(i - 1) : s[j] # "."
            ELSE 0

\* float(str)
FloatOfStr(s) ==
    LET t    == Strip(s)
        sgn  == t # <<>> /\ Head(t) \in {"+", "-"}
        neg  == t # <<>> /\ Head(t) = "-"
        body == IF sgn THEN Tail(t) ELSE t
        lb   == Lower(body)
        dot  == DotAt(body)
        ip   == SubSeq(body, 1, dot - 1)
        fp   == SubSeq(body, dot + 1, Len(body))
    IN  IF lb \in {<<"i", "n", "f">>, <<"i", "n", "f", "i", "n", "i", "t", "y">>}
          THEN Ok(Inf(neg))
        ELSE IF lb = <<"n", "a", "n">> THEN Ok(NaN)
        ELSE IF dot = 0
          THEN IF IsDigits(body) THEN Ok(Fin(neg, DigitsVal(body), 1))
               ELSE Raise("ValueError")
        ELSE IF /\ (ip = <<>> \/ IsDigits(ip))
                /\ (fp = <<>> \/ IsDigits(fp))
                /\ ~(ip = <<>> /\ fp = <<>>)
          THEN Ok(Fin(neg, DigitsVal(ip \o fp), Pow10(Len(fp))))
        ELSE Raise("ValueError")

\* float(x) for the values a row or a prompt can hold
PyFloat(x) ==
    IF x.t = "none" THEN Raise("TypeError")
    ELSE IF x.t = "int" THEN Ok(Fin(x.i < 0, IF x.i < 0 THEN -x.i ELSE x.i, 1))
    ELSE FloatOfStr(x.s)

\* int(str): optional sign and decimal digits only
IntOfStr(s) ==
    LET t    == Strip(s)
        sgn  == t # <<>> /\ Head(t) \in {"+", "-"}
        neg  == t # <<>> /\ Head(t) = "-"
        body == IF sgn THEN Tail(t) ELSE t
    IN  IF IsDigits(body)
          THEN Ok(IF neg THEN -DigitsVal(body) ELSE DigitsVal(body))
        ELSE Raise("ValueError")

\* int(x) for the values a row or a prompt can hold
PyInt(x) ==
    IF x.t = "none" THEN Raise("TypeError")
    ELSE IF x.t = "int" THEN Ok(x.i)
    ELSE IntOfStr(x.s)

\* int(f) for a float f: truncation; inf and nan raise
IntOfFloat(f) ==
    IF f.k = "inf" THEN Raise("OverflowError")
    ELSE IF f.k = "nan" THEN Raise("ValueError")
    ELSE Ok(IF f.neg THEN -(f.n \div f.d) ELSE f.n \div f.d)

\* f < 0 for a float f
FloatNegative(f) ==
    CASE f.k = "nan" -> FALSE
      [] f.k = "inf" -> f.neg
      [] OTHER       -> f.neg /\ f.n > 0

\* n <= f for an int n and a float f
IntLeFloat(n, f) ==
    CASE f.k = "nan" -> FALSE
      [] f.k = "inf" -> ~f.neg
      [] OTHER       -> n * f.d <= (IF f.neg THEN -f.n ELSE f.n)

\* str(x)
PyStr(x) ==
    IF x.t = "none" THEN <<"N", "o", "n", "e">>
    ELSE x.s

\* dict.get(key, default)
Get(row, key, default) == IF key \in DOMAIN row THEN row[key] ELSE default

(***************************************************************************)
(* Raw rows, as csv.DictReader yields them: every column of the header is  *)
(* a key; a row shorter than the header has None for the missing columns.  *)
(***************************************************************************)
Row(price, mileage, year, brand, model, title_status, color) ==
    ("price" :> price) @@ ("mileage" :> mileage) @@ ("year" :> year)
    @@ ("brand" :> brand) @@ ("model" :> model)
    @@ ("title_status" :> title_status) @@ ("color" :> color)

\* The same row read from a file whose header has no color column
WithoutColor(row) == [k \in DOMAIN row \ {"color"} |-> row[k]]

\* The title status filter_cars and _show_brand_statistics compare with
CleanVehicle == <<"c", "l", "e", "a", "n", " ", "v", "e", "h", "i", "c", "l", "e">>

\* Rows the normalizer accepts (the last one is short: title_status and color are None)
GoodRows ==
    {
     Row(Str(<<"1", "5", "0", "0", "0">>),
         Str(<<"3", "0", "0", "0", "0">>),
         Str(<<"2", "0", "2", "4">>),
         Str(<<" ", "K", "i", "a">>),
         Str(<<"R", "i", "o">>),
         Str(<<"c", "l", "e", "a", "n", " ", "v", "e", "h", "i", "c", "l", "e">>),
         Str(<<"R", "e", "d">>)),
     Row(Str(<<"3", "0", "0", "0", "0", ".", "9">>),
         Str(<<"3", "0", "0", "0", "0">>),
         Str(<<"2", "0", "2", "1">>),
         Str(<<"k", "i", "a">>),
         Str(<<"K", "5">>),
         Str(<<"C", "l", "e", "a", "n", " ", "V", "e", "h", "i", "c", "l", "e", " ">>),
         Str(<<>>)),
     Row(Str(<<"1", "2", "0", "0", "0">>),
         Str(<<"4", "5", "0", "0", "0">>),
         Str(<<"2", "0", "2", "5">>),
         Str(<<"B", "M", "W", " ">>),
         Str(<<"X", "5">>),
         Str(<<"s", "a", "l", "v", "a", "g", "e">>),
         Str(<<"B", "l", "u", "e">>)),
     Row(Str(<<"1", "5", "0", "0", "0">>),
         Str(<<"9", "0", "0", "0", ".", "5">>),
         Str(<<"2", "0", "1", "6">>),
         Str(<<"b", "m", "w">>),
         Str(<<"M", "3">>),
         Str(<<"c", "l", "e", "a", "n", " ", "v", "e", "h", "i", "c", "l", "e">>),
         Str(<<"R", "e", "d">>)),
     Row(Str(<<"1", "5", "0", "0", "0">>),
         Str(<<"1", "0", "0">>),
         Str(<<"2", "0", "2", "4">>),
         Str(<<"k", "i", "a">>),
         Str(<<"R", "i", "o">>),
         NoneVal,
         NoneVal)
    }

\* Rows whose price or mileage is an infinite float and whose other fields are valid
InfiniteRows ==
    {
     Row(Str(<<"i", "n", "f">>),
         Str(<<"1", "0", "0">>),
         Str(<<"2", "0", "2", "4">>),
         Str(<<"k", "i", "a">>),
         Str(<<"R", "i", "o">>),
         Str(<<"c", "l", "e", "a", "n", " ", "v", "e", "h", "i", "c", "l", "e">>),
         Str(<<"R", "e", "d">>)),
     Row(Str(<<"1", "5", "0", "0", "0">>),
         Str(<<"I", "n", "f", "i", "n", "i", "t", "y">>),
         Str(<<"2", "0", "2", "4">>),
         Str(<<"b", "m", "w">>),
         Str(<<"M", "3">>),
         Str(<<"c", "l", "e", "a", "n", " ", "v", "e", "h", "i", "c", "l", "e">>),
         Str(<<"R", "e", "d">>))
    }

\* Rows with a nan or negative price, a year out of range, a non-numeric
\* field, a blank brand, or missing fields
BadRows ==
    {
     Row(Str(<<"n", "a", "n">>),
         Str(<<"1", "0", "0">>),
         Str(<<"2", "0", "2", "4">>),
         Str(<<"k", "i", "a">>),
         Str(<<"R", "i", "o">>),
         Str(<<"c", "l", "e", "a", "n", " ", "v", "e", "h", "i", "c", "l", "e">>),
         Str(<<"R", "e", "d">>)),
     Row(Str(<<"-", "5", "0", "0">>),
         Str(<<"1", "0", "0">>),
         Str(<<"2", "0", "2", "4">>),
         Str(<<"k", "i", "a">>),
         Str(<<"R", "i", "o">>),
         Str(<<"c", "l", "e", "a", "n", " ", "v", "e", "h", "i", "c", "l", "e">>),
         Str(<<"R", "e", "d">>)),
     Row(Str(<<"1", "5", "0", "0", "0">>),
         Str(<<"1", "0", "0">>),
         Str(<<"1", "8", "9", "9">>),
         Str(<<"k", "i", "a">>),
         Str(<<"R", "i", "o">>),
         Str(<<"c", "l", "e", "a", "n", " ", "v", "e", "h", "i", "c", "l", "e">>),
         Str(<<"R", "e", "d">>)),
     Row(Str(<<"1", "5", "0", "0", "0">>),
         Str(<<"1", "0", "0">>),
         Str(<<"2", "0", "2", "6">>),
         Str(<<"k", "i", "a">>),
         Str(<<"R", "i", "o">>),
         Str(<<"c", "l", "e", "a", "n", " ", "v", "e", "h", "i", "c", "l", "e">>),
         Str(<<"R", "e", "d">>)),
     Row(Str(<<"a", "b", "c">>),
         Str(<<"1", "0", "0">>),
         Str(<<"2", "0", "2", "4">>),
         Str(<<"k", "i", "a">>),
         Str(<<"R", "i", "o">>),
         Str(<<"c", "l", "e", "a", "n", " ", "v", "e", "h", "i", "c", "l", "e">>),
         Str(<<"R", "e", "d">>)),
     Row(Str(<<"1", "5", "0", "0", "0">>),
         Str(<<"1", "0", "0">>),
         Str(<<"2", "0", "2", "0", ".", "0">>),
         Str(<<"k", "i", "a">>),
         Str(<<"R", "i", "o">>),
         Str(<<"c", "l", "e", "a", "n", " ", "v", "e", "h", "i", "c", "l", "e">>),
         Str(<<"R", "e", "d">>)),
     Row(Str(<<"i", "n", "f">>),
         Str(<<"1", "0", "0">>),
         Str(<<"2", "0", "2", "4">>),
         Str(<<" ", " ">>),
         Str(<<"R", "i", "o">>),
         Str(<<"c", "l", "e", "a", "n", " ", "v", "e", "h", "i", "c", "l", "e">>),
         Str(<<"R", "e", "d">>)),
     Row(Str(<<"1", "5", "0", "0", "0">>),
         NoneVal,
         NoneVal,
         NoneVal,
         NoneVal,
         NoneVal,
         NoneVal)
    }

RawRows == GoodRows \cup InfiniteRows \cup BadRows

(***************************************************************************)
(* _clean_row_data                                                         *)
(***************************************************************************)
MinYear == 1900
MaxYear == 2025

Record(car)   == [kind |-> "record", car |-> car, exc |-> ""]
Rejected      == [kind |-> "none", car |-> <<>>, exc |-> ""]
Raised(e)     == [kind |-> "raise", car |-> <<>>, exc |-> e]

\* except (ValueError, TypeError): return None; anything else propagates
CleanExcept(e) == IF e \in {"ValueError", "TypeError"} THEN Rejected ELSE Raised(e)

clean_row_data(row) ==
    LET price   == PyFloat(Get(row, "price", IntVal(0)))
        mileage == PyFloat(Get(row, "mileage", IntVal(0)))
        year    == PyInt(Get(row, "year", IntVal(0)))
        brand   == Lower(Strip(PyStr(Get(row, "brand", Str(<<>>)))))
        model   == Strip(PyStr(Get(row, "model", Str(<<>>))))
        color   == Strip(PyStr(Get(row, "color",
                       Str(<<"u", "n", "k", "n", "o", "w", "n">>))))
        title_status == Lower(Strip(PyStr(Get(row, "title_status", Str(<<>>)))))
        iprice   == IntOfFloat(price.v)
        imileage == IntOfFloat(mileage.v)
    IN  IF price.exc # "" THEN CleanExcept(price.exc)
        ELSE IF mileage.exc # "" THEN CleanExcept(mileage.exc)
        ELSE IF year.exc # "" THEN CleanExcept(year.exc)
        ELSE IF \/ FloatNegative(price.v) \/ FloatNegative(mileage.v)
                \/ year.v < MinYear \/ year.v > MaxYear
          THEN Rejected
        ELSE IF brand = <<>> \/ model = <<>> THEN Rejected
        ELSE IF iprice.exc # "" THEN CleanExcept(iprice.exc)
        ELSE IF imileage.exc # "" THEN CleanExcept(imileage.exc)
        ELSE Record([price |-> iprice.v, brand |-> brand, model |-> model,
                     year |-> year.v, title_status |-> title_status,
                     mileage |-> imileage.v, color |-> color])

(***************************************************************************)
(* _organize_by_brand: the loop over cars_data                             *)
(***************************************************************************)
EmptyDict == [b \in {} |-> <<>>]

RECURSIVE OrganizeLoop(_, _)
OrganizeLoop(cars, index) ==
    IF cars = <<>> THEN index
    ELSE LET car    == Head(cars)
             brand  == car.brand
             index1 == IF brand \notin DOMAIN index
                       THEN index @@ (brand :> <<>>) ELSE index
         IN  OrganizeLoop(Tail(cars), [index1 EXCEPT ![brand] = Append(@, car)])

organize_by_brand(cars) == OrganizeLoop(cars, EmptyDict)

\* self.cars_by_brand.get(brand, [])
GroupOf(index, brand) == IF brand \in DOMAIN index THEN index[brand] ELSE <<>>

(***************************************************************************)
(* Ranking methods and key functions                                       *)
(***************************************************************************)
CurrentYear == 2025

Max(a, b) == IF a >= b THEN a ELSE b
Min(a, b) == IF a <= b THEN a ELSE b

\* n ** 0.5, exact on the perfect squares the enumerated years give
Sqrt(n) == CHOOSE r \in 0..n : r * r = n

get_price(car)   == car.price
get_year(car)    == car.year
get_mileage(car) == car.mileage

\* price / sqrt(age): the float is kept as the exact fixed-point number
\* 6 * price / sqrt(age), an integer for the ages 1, 4 and 9
get_value_score(car) ==
    LET car_age == Max(1, CurrentYear - car.year)
    IN  (car.price * (2 * 3)) \div Sqrt(car_age)

ranking_methods ==
    (<<"1">> :> [sort_key |-> "price", reverse |-> FALSE])
    @@ (<<"2">> :> [sort_key |-> "year", reverse |-> TRUE])
    @@ (<<"3">> :> [sort_key |-> "mileage", reverse |-> FALSE])
    @@ (<<"4">> :> [sort_key |-> "value", reverse |-> FALSE])

\* the key function of ranking method m applied to a car
key_func(m, car) ==
    CASE m = <<"1">> -> get_price(car)
      [] m = <<"2">> -> get_year(car)
      [] m = <<"3">> -> get_mileage(car)
      [] m = <<"4">> -> get_value_score(car)

(***************************************************************************)
(* quicksort: one frame per active call                                    *)
(***************************************************************************)
Pivot(a) == a[(Len(a) \div 2) + 1]

\* a left group that ignores the direction flag
QsLeftIgnoresReverse(a, m, rev) ==
    LET pivot_value == key_func(m, Pivot(a))
    IN  SelectSeq(a, LAMBDA x : key_func(m, x) < pivot_value)

\* a left group that also takes the records equal to the pivot
QsLeftWithEqual(a, m, rev) ==
    LET pivot_value == key_func(m, Pivot(a))
    IN  SelectSeq(a, LAMBDA x : IF rev THEN key_func(m, x) >= pivot_value
                                       ELSE key_func(m, x) <= pivot_value)

QsLeft(a, m, rev) ==
    LET pivot_value == key_func(m, Pivot(a))
    IN  SelectSeq(a, LAMBDA x : IF rev THEN key_func(m, x) > pivot_value
                                       ELSE key_func(m, x) < pivot_value)

\* a middle group that holds the pivot alone
QsMiddleOnlyPivot(a, m, rev) == <<Pivot(a)>>

\* a middle group built back to front
QsMiddleReversed(a, m, rev) ==
    LET pivot_value == key_func(m, Pivot(a))
        eq == SelectSeq(a, LAMBDA x : key_func(m, x) = pivot_value)
    IN  [i \in 1..Len(eq) |-> eq[Len(eq) + 1 - i]]

QsMiddle(a, m, rev) ==
    LET pivot_value == key_func(m, Pivot(a))
    IN  SelectSeq(a, LAMBDA x : key_func(m, x) = pivot_value)

QsRight(a, m, rev) ==
    LET pivot_value == key_func(m, Pivot(a))
    IN  SelectSeq(a, LAMBDA x : IF rev THEN key_func(m, x) < pivot_value
                                       ELSE key_func(m, x) > pivot_value)

Frame(a) == [arr |-> a, stage |-> "enter", middle |-> <<>>, right |-> <<>>,
             sorted_left |-> <<>>]

Top == stack[Len(stack)]
Pop == SubSeq(stack, 1, Len(stack) - 1)

\* quicksort(cars, key_func, reverse) is called
QsCall(cars, m, rev) ==
    /\ method' = m
    /\ reverse' = rev
    /\ arr' = cars
    /\ stack' = <<Frame(cars)>>
    /\ ret' = <<>>
    /\ max_depth' = 1
    /\ sorted_cars' = <<>>

\* if len(arr) <= 1: return arr
QsBase ==
    /\ pc = "sorting" /\ stack # <<>>
    /\ Top.stage = "enter" /\ Len(Top.arr) <= 1
    /\ ret' = Top.arr
    /\ stack' = Pop
    /\ UNCHANGED <<pc, method, reverse, arr, max_depth, sorted_cars>>
    /\ UNCHANGED <<loadVars, filterVars, showVars, ioVars>>

\* the three comprehensions, then the call quicksort(left, ...)
QsPartition ==
    /\ pc = "sorting" /\ stack # <<>>
    /\ Top.stage = "enter" /\ Len(Top.arr) > 1
    /\ LET a == Top.arr
           f == [Top EXCEPT !.stage = "left",
                            !.middle = QsMiddle(a, method, reverse),
                            !.right = QsRight(a, method, reverse)]
       IN  stack' = Append([stack EXCEPT ![Len(stack)] = f],
                           Frame(QsLeft(a, method, reverse)))
    /\ max_depth' = Max(max_depth, Len(stack) + 1)
    /\ UNCHANGED <<pc, method, reverse, arr, ret, sorted_cars>>
    /\ UNCHANGED <<loadVars, filterVars, showVars, ioVars>>

\* quicksort(left, ...) has returned; the call quicksort(right, ...)
QsLeftDone ==
    /\ pc = "sorting" /\ stack # <<>>
    /\ Top.stage = "left"
    /\ stack' = Append([stack EXCEPT ![Len(stack)] =
                           [Top EXCEPT !.stage = "right", !.sorted_left = ret]],
                       Frame(Top.right))
    /\ max_depth' = Max(max_depth, Len(stack) + 1)
    /\ UNCHANGED <<pc, method, reverse, arr, ret, sorted_cars>>
    /\ UNCHANGED <<loadVars, filterVars, showVars, ioVars>>

\* quicksort(right, ...) has returned; return left + middle + right
QsRightDone ==
    /\ pc = "sorting" /\ stack # <<>>
    /\ Top.stage = "right"
    /\ ret' = Top.sorted_left \o Top.middle \o ret
    /\ stack' = Pop
    /\ UNCHANGED <<pc, method, reverse, arr, max_depth, sorted_cars>>
    /\ UNCHANGED <<loadVars, filterVars, showVars, ioVars>>

\* the outermost call returns to its caller: sorted_cars = quicksort(...)
QsReturn ==
    /\ pc = "sorting" /\ stack = <<>>
    /\ sorted_cars' = ret
    /\ pc' = "sorted"
    /\ UNCHANGED <<method, reverse, arr, stack, ret, max_depth>>
    /\ UNCHANGED <<loadVars, filterVars, showVars, ioVars>>

(***************************************************************************)
(* display_results and _show_brand_statistics                              *)
(***************************************************************************)
DisplayLimit == 10

RECURSIVE Sum(_)
Sum(s) == IF s = <<>> THEN 0 ELSE Head(s) + Sum(Tail(s))

RECURSIVE MinOf(_)
MinOf(s) == IF Len(s) = 1 THEN s[1] ELSE Min(Head(s), MinOf(Tail(s)))

RECURSIVE MaxOf(_)
MaxOf(s) == IF Len(s) = 1 THEN s[1] ELSE Max(Head(s), MaxOf(Tail(s)))

Prices(cars) == [i \in 1..Len(cars) |-> cars[i].price]

NoSummary == [kind |-> "unset", shown |-> 0, count |-> 0, total |-> 0]

\* a display_results whose summary is not guarded by len(cars) > 1
display_results_unguarded(cars) ==
    IF cars = <<>> THEN [kind |-> "no_cars", shown |-> 0, count |-> 0, total |-> 0]
    ELSE [kind |-> "summary", shown |-> Min(DisplayLimit, Len(cars)),
          count |-> Len(cars), total |-> Sum(Prices(cars))]

\* What display_results prints: "no_cars" for the early return, else the
\* listing of the first display_count cars and, for more than one car, the
\* summary line (count, and the average as the pair total / count)
display_results(cars) ==
    IF cars = <<>> THEN [kind |-> "no_cars", shown |-> 0, count |-> 0, total |-> 0]
    ELSE LET total_cars    == Len(cars)
             display_count == Min(DisplayLimit, total_cars)
         IN  IF Len(cars) > 1
               THEN [kind |-> "summary", shown |-> display_count,
                     count |-> Len(cars), total |-> Sum(Prices(cars))]
             ELSE [kind |-> "listing", shown |-> display_count,
                   count |-> 0, total |-> 0]

IsClean(car) == car.title_status = CleanVehicle

\* The rows _show_brand_statistics prints: one per brand that has clean cars
show_brand_statistics(index) ==
    LET clean_cars(b) == SelectSeq(index[b], IsClean)
    IN  [b \in {x \in DOMAIN index : clean_cars(x) # <<>>} |->
            LET prices == Prices(clean_cars(b))
            IN  [count |-> Len(prices), total |-> Sum(prices),
                 min_price |-> MinOf(prices), max_price |-> MaxOf(prices)]]

(***************************************************************************)
(* load_data                                                               *)
(***************************************************************************)
MaxRows  == 2
MaxLoads == 2

SeqsUpTo(S, n) == UNION {[1..k -> S] : k \in 0..n}

ExistingFile(rows) == [exists |-> TRUE, rows |-> rows]
MissingFile        == [exists |-> FALSE, rows |-> <<>>]

\* The files load_data may find: none, or up to MaxRows rows under a header
\* with all seven columns or under a header without the color column
Files ==
    {MissingFile}
    \cup {ExistingFile(rows) : rows \in SeqsUpTo(RawRows, MaxRows)}
    \cup {ExistingFile(rows) :
            rows \in SeqsUpTo({WithoutColor(r) : r \in RawRows}, MaxRows)}

\* load_data is entered: open() and the DictReader; cars_data is not reset
LoadCall(f) ==
    /\ file' = f
    /\ loads' = loads + 1
    /\ row_idx' = 0
    /\ skipped_rows' = 0
    /\ load_error' = IF f.exists THEN "" ELSE "FileNotFoundError"
    /\ load_result' = IF f.exists THEN "none" ELSE "False"
    /\ pc' = IF f.exists THEN "reading" ELSE "loaded"
    /\ UNCHANGED <<cleaned, cars_data, cars_by_brand>>
    /\ UNCHANGED <<filterVars, sortVars, showVars, ioVars>>

\* one iteration of the row loop
LoadRow ==
    /\ pc = "reading"
    /\ row_idx < Len(file.rows)
    /\ LET cleaned_row == clean_row_data(file.rows[row_idx + 1])
       IN  /\ cleaned' = cleaned_row
           /\ row_idx' = row_idx + 1
           /\ CASE cleaned_row.kind = "record" ->
                     /\ cars_data' = Append(cars_data, cleaned_row.car)
                     /\ UNCHANGED <<skipped_rows, load_error, load_result, pc>>
                [] cleaned_row.kind = "none" ->
                     /\ skipped_rows' = skipped_rows + 1
                     /\ UNCHANGED <<cars_data, load_error, load_result, pc>>
                [] cleaned_row.kind = "raise" /\ cleaned_row.exc = "ValueError" ->
                     /\ skipped_rows' = skipped_rows + 1
                     /\ UNCHANGED <<cars_data, load_error, load_result, pc>>
                [] OTHER ->
                     \* except Exception as e: return False
                     /\ load_error' = cleaned_row.exc
                     /\ load_result' = "False"
                     /\ pc' = "loaded"
                     /\ UNCHANGED <<cars_data, skipped_rows>>
    /\ UNCHANGED <<file, loads, cars_by_brand>>
    /\ UNCHANGED <<filterVars, sortVars, showVars, ioVars>>

\* after the row loop: the empty check, _organize_by_brand, return
LoadFinish ==
    /\ pc = "reading"
    /\ row_idx = Len(file.rows)
    /\ IF cars_data = <<>>
         THEN /\ load_result' = "False"
              /\ UNCHANGED cars_by_brand
         ELSE /\ cars_by_brand' = organize_by_brand(cars_data)
              /\ load_result' = "True"
    /\ pc' = "loaded"
    /\ UNCHANGED <<file, row_idx, skipped_rows, cleaned, load_error, loads, cars_data>>
    /\ UNCHANGED <<filterVars, sortVars, showVars, ioVars>>

(***************************************************************************)
(* filter_cars                                                             *)
(***************************************************************************)
Unasked   == [asked |-> FALSE, s |-> <<>>]
Asked(s)  == [asked |-> TRUE, s |-> s]

\* a price stage that keeps only the cars strictly under the ceiling
price_stage_strict(cars, pf) ==
    LET max_price_filter == FloatOfStr(pf)
    IN  IF pf # <<>> /\ max_price_filter.exc = ""
          THEN SelectSeq(cars, LAMBDA car :
                   /\ IntLeFloat(car.price, max_price_filter.v)
                   /\ ~(max_price_filter.v.k = "fin"
                        /\ car.price * max_price_filter.v.d = max_price_filter.v.n))
        ELSE cars

\* the price stage of filter_cars, for the stripped input pf
price_stage(cars, pf) ==
    LET max_price_filter == FloatOfStr(pf)
    IN  IF pf # <<>> /\ max_price_filter.exc = ""
          THEN SelectSeq(cars, LAMBDA car : IntLeFloat(car.price, max_price_filter.v))
        ELSE cars

\* the year stage of filter_cars, for the stripped input yf
year_stage(cars, yf) ==
    LET min_year_filter == IntOfStr(yf)
    IN  IF yf # <<>> /\ min_year_filter.exc = ""
          THEN SelectSeq(cars, LAMBDA car : car.year >= min_year_filter.v)
        ELSE cars

\* filter_cars(brand) is entered: the clean cars of the brand's group
FilterBegin ==
    /\ pc = "filter_begin"
    /\ LET clean == SelectSeq(GroupOf(cars_by_brand, selected_brand), IsClean)
       IN  /\ cars_available' = clean
           /\ pc' = IF clean = <<>> THEN "filter_return" ELSE "price_prompt"
    /\ price_filter' = Unasked
    /\ year_filter' = Unasked
    /\ UNCHANGED selected_brand
    /\ UNCHANGED <<loadVars, sortVars, showVars, ioVars>>

\* the maximum-price prompt reads a line
FilterPrice(line) ==
    /\ pc = "price_prompt"
    /\ LET pf   == Strip(line)
           kept == price_stage(cars_available, pf)
       IN  /\ price_filter' = Asked(pf)
           /\ cars_available' = kept
           /\ pc' = IF kept # <<>> THEN "year_prompt" ELSE "filter_return"
           /\ prompt' = "price"
           /\ choice' = pf
    /\ UNCHANGED <<selected_brand, year_filter>>
    /\ UNCHANGED <<loadVars, sortVars, showVars>>

\* the minimum-year prompt reads a line
FilterYear(line) ==
    /\ pc = "year_prompt"
    /\ LET yf == Strip(line)
       IN  /\ year_filter' = Asked(yf)
           /\ cars_available' = year_stage(cars_available, yf)
           /\ prompt' = "year"
           /\ choice' = yf
    /\ pc' = "filter_return"
    /\ UNCHANGED <<selected_brand, price_filter>>
    /\ UNCHANGED <<loadVars, sortVars, showVars>>

(***************************************************************************)
(* get_user_brand, get_ranking_method and run                              *)
(***************************************************************************)
\* the characters of brand names, in code point order
CharOrder == <<" ", "0", "1", "2", "3", "4", "5", "6", "7", "8", "9",
               "a", "b", "c", "d", "e", "f", "g", "h", "i", "j", "k", "l", "m",
               "n", "o", "p", "q", "r", "s", "t", "u", "v", "w", "x", "y", "z">>

Ord(c) == CHOOSE i \in 1..Len(CharOrder) : CharOrder[i] = c

\* a < b for two strings
RECURSIVE StrLess(_, _)
StrLess(a, b) ==
    IF b = <<>> THEN FALSE
    ELSE IF a = <<>> THEN TRUE
    ELSE IF Head(a) = Head(b) THEN StrLess(Tail(a), Tail(b))
    ELSE Ord(Head(a)) < Ord(Head(b))

\* sorted(keys)
RECURSIVE Sorted(_)
Sorted(S) ==
    IF S = {} THEN <<>>
    ELSE LET least == CHOOSE x \in S : \A y \in S : x = y \/ StrLess(x, y)
         IN  <<least>> \o Sorted(S \ {least})

Quit == <<"q">>

\* the lines typed at the prompts
BrandLines    == {<<"q">>, <<"Q", " ">>, <<"1">>, <<" ", "2">>, <<"3">>, <<"9">>,
                  <<"x">>, <<>>}
PriceLines    == {<<>>, <<"q">>, <<"1", "5", "0", "0", "0">>,
                  <<"1", "4", "9", "9", "9", ".", "9">>, <<"n", "a", "n">>,
                  <<"i", "n", "f">>}
YearLines     == {<<>>, <<"q">>, <<" ", "2", "0", "2", "1">>,
                  <<"2", "0", "2", "1", ".", "0">>, <<"2", "0", "2", "5">>}
RankLines     == {<<"q">>, <<"1">>, <<"2">>, <<"3">>, <<"4">>, <<"5">>, <<>>}
ContinueLines == {<<"y">>, <<"Y", "E", "S">>, <<"n">>, <<"q">>, <<>>}

\* run: if not self.load_data(): return
RunAfterLoad ==
    /\ pc = "loaded"
    /\ pc' = IF load_result = "True" THEN "brand_prompt" ELSE "done"
    /\ UNCHANGED <<loadVars, filterVars, sortVars, showVars, ioVars>>

\* get_user_brand reads a line; run breaks on None, else calls filter_cars
BrandPrompt(line) ==
    /\ pc = "brand_prompt"
    /\ IF DOMAIN cars_by_brand = {}
         THEN \* "No car data available.": return None, and run breaks
              /\ pc' = "done"
              /\ UNCHANGED <<selected_brand, stats, prompt, choice>>
         ELSE LET brands     == Sorted(DOMAIN cars_by_brand)
                  text       == Strip(line)
                  choice_num == IntOfStr(text)
              IN  /\ prompt' = "brand"
                  /\ choice' = text
                  /\ IF Lower(text) = Quit
                       THEN /\ pc' = "done"
                            /\ UNCHANGED <<selected_brand, stats>>
                     ELSE IF choice_num.exc # ""
                       THEN UNCHANGED <<pc, selected_brand, stats>>
                     ELSE IF choice_num.v = Len(brands) + 1
                       THEN /\ stats' = show_brand_statistics(cars_by_brand)
                            /\ UNCHANGED <<pc, selected_brand>>
                     ELSE IF 1 <= choice_num.v /\ choice_num.v <= Len(brands)
                       THEN /\ selected_brand' = brands[choice_num.v]
                            /\ pc' = "filter_begin"
                            /\ UNCHANGED stats
                     ELSE UNCHANGED <<pc, selected_brand, stats>>
    /\ UNCHANGED <<cars_available, price_filter, year_filter, summary>>
    /\ UNCHANGED <<loadVars, sortVars>>

\* a run that breaks instead of continuing when the filter result is empty
RunAfterFilterBreaks ==
    /\ pc = "filter_return"
    /\ pc' = IF cars_available = <<>> THEN "done" ELSE "rank_prompt"
    /\ price_filter' = Unasked
    /\ year_filter' = Unasked
    /\ UNCHANGED <<selected_brand, cars_available>>
    /\ UNCHANGED <<loadVars, sortVars, showVars, ioVars>>

\* run: filter_cars has returned; if not cars_available: continue
RunAfterFilter ==
    /\ pc = "filter_return"
    /\ pc' = IF cars_available = <<>> THEN "brand_prompt" ELSE "rank_prompt"
    /\ price_filter' = Unasked
    /\ year_filter' = Unasked
    /\ UNCHANGED <<selected_brand, cars_available>>
    /\ UNCHANGED <<loadVars, sortVars, showVars, ioVars>>

\* get_ranking_method reads a line; run breaks on None, else calls quicksort
RankPrompt(line) ==
    /\ pc = "rank_prompt"
    /\ LET text == Strip(line)
       IN  /\ prompt' = "rank"
           /\ choice' = text
           /\ IF Lower(text) = Quit
                THEN /\ pc' = "done"
                     /\ UNCHANGED sortVars
              ELSE IF text \in DOMAIN ranking_methods
                THEN /\ QsCall(cars_available, text, ranking_methods[text].reverse)
                     /\ pc' = "sorting"
              ELSE UNCHANGED <<pc, sortVars>>
    /\ UNCHANGED <<loadVars, filterVars, showVars>>

\* display_results(sorted_cars, ...)
DisplayResults ==
    /\ pc = "sorted"
    /\ summary' = display_results(sorted_cars)
    /\ pc' = "displayed"
    /\ UNCHANGED <<stats>>
    /\ UNCHANGED <<loadVars, filterVars, sortVars, ioVars>>

\* "Would you like to search again? (y/n)"
ContinuePrompt(line) ==
    /\ pc = "displayed"
    /\ LET continue_choice == Lower(Strip(line))
       IN  /\ prompt' = "continue"
           /\ choice' = continue_choice
           /\ pc' = IF continue_choice \in {<<"y">>, <<"y", "e", "s">>}
                    THEN "brand_prompt" ELSE "done"
    /\ UNCHANGED <<loadVars, filterVars, sortVars, showVars>>

\* _show_brand_statistics(), called on its own
StatsCall ==
    /\ pc = "displayed"
    /\ stats' = show_brand_statistics(cars_by_brand)
    /\ pc' = "end"
    /\ UNCHANGED <<summary>>
    /\ UNCHANGED <<loadVars, filterVars, sortVars, ioVars>>

(***************************************************************************)
(* Specifications                                                          *)
(***************************************************************************)
\* The object as __init__ leaves it, no call in progress
Constructed ==
    /\ file = MissingFile
    /\ row_idx = 0
    /\ skipped_rows = 0
    /\ cleaned = [kind |-> "unset", car |-> <<>>, exc |-> ""]
    /\ load_result = "none"
    /\ load_error = ""
    /\ loads = 0
    /\ cars_data = <<>>
    /\ cars_by_brand = EmptyDict
    /\ selected_brand = <<>>
    /\ cars_available = <<>>
    /\ price_filter = Unasked
    /\ year_filter = Unasked
    /\ method = <<>>
    /\ reverse = FALSE
    /\ arr = <<>>
    /\ stack = <<>>
    /\ ret = <<>>
    /\ max_depth = 0
    /\ sorted_cars = <<>>
    /\ summary = NoSummary
    /\ stats = EmptyDict
    /\ prompt = "none"
    /\ choice = <<>>

\* --- load_data called up to MaxLoads times on one object ---
LoadInit == pc = "idle" /\ Constructed

LoadAny ==
    /\ pc \in {"idle", "loaded"}
    /\ loads < MaxLoads
    /\ \E f \in Files : LoadCall(f)

LoadNext == LoadAny \/ LoadRow \/ LoadFinish

LoadSpec == LoadInit /\ [][LoadNext]_vars

\* The records the row loop appends for a sequence of rows none of which
\* raises: the accepted rows, in order
RECURSIVE Accepted(_)
Accepted(rows) ==
    IF rows = <<>> THEN <<>>
    ELSE LET cleaned_row == clean_row_data(Head(rows))
         IN  (IF cleaned_row.kind = "record" THEN <<cleaned_row.car>> ELSE <<>>)
             \o Accepted(Tail(rows))

\* The object after one load_data call on a file of accepted rows
Loaded(rows) ==
    /\ file = ExistingFile(rows)
    /\ row_idx = Len(rows)
    /\ skipped_rows = 0
    /\ cleaned = IF rows = <<>> THEN [kind |-> "unset", car |-> <<>>, exc |-> ""]
                 ELSE clean_row_data(rows[Len(rows)])
    /\ load_result = IF rows = <<>> THEN "False" ELSE "True"
    /\ load_error = ""
    /\ loads = 1
    /\ cars_data = Accepted(rows)
    /\ cars_by_brand = organize_by_brand(Accepted(rows))
    /\ cars_available = <<>>
    /\ price_filter = Unasked
    /\ year_filter = Unasked
    /\ summary = NoSummary
    /\ stats = EmptyDict
    /\ prompt = "none"
    /\ choice = <<>>

NoSort ==
    /\ method = <<>>
    /\ reverse = FALSE
    /\ arr = <<>>
    /\ stack = <<>>
    /\ ret = <<>>
    /\ max_depth = 0
    /\ sorted_cars = <<>>

\* --- quicksort(self.cars_data, key_func, reverse), display_results on its
\* --- result, then _show_brand_statistics, on a loaded object
MaxLen == 3

SortInit ==
    \E rows \in SeqsUpTo(GoodRows, MaxLen), m \in DOMAIN ranking_methods,
       rev \in BOOLEAN :
        /\ Loaded(rows)
        /\ selected_brand = <<>>
        /\ pc = "sorting"
        /\ method = m
        /\ reverse = rev
        /\ arr = Accepted(rows)
        /\ stack = <<Frame(Accepted(rows))>>
        /\ ret = <<>>
        /\ max_depth = 1
        /\ sorted_cars = <<>>

SortNext ==
    \/ QsBase \/ QsPartition \/ QsLeftDone \/ QsRightDone \/ QsReturn
    \/ DisplayResults
    \/ StatsCall

SortSpec == SortInit /\ [][SortNext]_vars

\* every call returns, and the pipeline runs to its end
SortFairSpec == SortSpec /\ WF_vars(SortNext)

\* --- filter_cars(brand) on a loaded object, for a known or unknown brand
FilterBrands == {<<"k", "i", "a">>, <<"b", "m", "w">>, <<"v", "w">>}

FilterInit ==
    \E rows \in SeqsUpTo(GoodRows, MaxLen), brand \in FilterBrands :
        /\ Loaded(rows)
        /\ NoSort
        /\ pc = "filter_begin"
        /\ selected_brand = brand

FilterNext ==
    \/ FilterBegin
    \/ \E line \in PriceLines : FilterPrice(line)
    \/ \E line \in YearLines : FilterYear(line)

FilterSpec == FilterInit /\ [][FilterNext]_vars

\* --- run() on a freshly constructed object
\* the rows of run's files: the accepted rows, a row with an infinite price
\* and a row with a negative price
RunRows ==
    GoodRows \cup {r \in InfiniteRows \cup BadRows :
                      /\ r["price"].s \in {<<"i", "n", "f">>, <<"-", "5", "0", "0">>}
                      /\ r["brand"].s = <<"k", "i", "a">>}

RunFiles ==
    {MissingFile} \cup {ExistingFile(rows) : rows \in SeqsUpTo(RunRows, MaxRows)}

RunInit == pc = "idle" /\ Constructed

RunLoad ==
    /\ pc = "idle"
    /\ \E f \in RunFiles : LoadCall(f)

RunNext ==
    \/ RunLoad \/ LoadRow \/ LoadFinish \/ RunAfterLoad
    \/ \E line \in BrandLines : BrandPrompt(line)
    \/ FilterBegin
    \/ \E line \in PriceLines : FilterPrice(line)
    \/ \E line \in YearLines : FilterYear(line)
    \/ RunAfterFilter
    \/ \E line \in RankLines : RankPrompt(line)
    \/ QsBase \/ QsPartition \/ QsLeftDone \/ QsRightDone \/ QsReturn
    \/ DisplayResults
    \/ \E line \in ContinueLines : ContinuePrompt(line)

RunSpec == RunInit /\ [][RunNext]_vars

(***************************************************************************)
(* Properties                                                              *)
(***************************************************************************)
Range(s) == {s[i] : i \in 1..Len(s)}
Count(x, s) == Cardinality({i \in 1..Len(s) : s[i] = x})
AfterSort == pc \in {"sorted", "displayed", "end"}
KeysOf(s) == {key_func(method, s[i]) : i \in 1..Len(s)}
WithKey(s, k) == SelectSeq(s, LAMBDA x : key_func(method, x) = k)

\* C1: for every list, ranking method and direction, the list quicksort
\* returns has the length of its input and holds each record exactly as
\* many times as the input does.
C1_Permutation ==
    AfterSort =>
        /\ Len(sorted_cars) = Len(arr)
        /\ \A car \in Range(arr) \cup Range(sorted_cars) :
               Count(car, sorted_cars) = Count(car, arr)

\* a descending sort of three records that had to be reordered
C1_Witness ==
    /\ pc = "sorted" /\ reverse /\ Len(arr) = 3 /\ sorted_cars # arr
    /\ \E i, j \in 1..Len(arr) : i # j /\ arr[i] = arr[j]

\* C2: quicksort is stable in both directions: the records of any one key
\* value come out in the order they had in the input.
C2_Stable ==
    AfterSort =>
        \A k \in KeysOf(arr) : WithKey(sorted_cars, k) = WithKey(arr, k)

\* a descending sort that moved records and met two different records of
\* equal key
C2_Witness ==
    /\ pc = "sorted" /\ reverse /\ sorted_cars # arr
    /\ \E i, j \in 1..Len(arr) :
           /\ i < j /\ arr[i] # arr[j]
           /\ key_func(method, arr[i]) = key_func(method, arr[j])

\* C3: with a ranking method's own key function and default direction, the
\* result is ordered by that key: price, mileage and value score
\* non-decreasing, year non-increasing, for every adjacent pair.
C3_Ordered ==
    (AfterSort /\ reverse = ranking_methods[method].reverse) =>
        \A i \in 1..(Len(sorted_cars) - 1) :
            LET a == sorted_cars[i]
                b == sorted_cars[i + 1]
            IN  CASE method = <<"1">> -> a.price <= b.price
                  [] method = <<"2">> -> a.year >= b.year
                  [] method = <<"3">> -> a.mileage <= b.mileage
                  [] method = <<"4">> -> get_value_score(a) <= get_value_score(b)

\* a newest-first ranking of three records that were not in that order
C3_Witness ==
    /\ pc = "sorted" /\ method = <<"2">> /\ reverse
    /\ Len(arr) = 3 /\ sorted_cars # arr
    /\ sorted_cars[1].year > sorted_cars[3].year

\* quicksort's calls nest with strictly shorter lists, never deeper than
\* the input is long, and a list of at most one record comes back as it is
\* from the outermost call alone
C10_Depth ==
    /\ \A i \in 2..Len(stack) : Len(stack[i].arr) < Len(stack[i - 1].arr)
    /\ Len(stack) <= Max(1, Len(arr))
    /\ max_depth <= Max(1, Len(arr))
    /\ (AfterSort /\ Len(arr) <= 1) => (sorted_cars = arr /\ max_depth = 1)

\* C10: quicksort terminates on every input in both directions: each
\* recursive call gets a strictly shorter list, the depth never exceeds the
\* length of the input, a list of length 0 or 1 is returned as it is
\* without recursion, and the outermost call returns.
C10_Terminates == []C10_Depth /\ <>(pc = "end")

\* a sort of three records whose calls nested as deep as the list is long
C10_Witness == pc = "sorted" /\ Len(arr) = 3 /\ max_depth = 3

\* C8 as stated: the summary signals "no data" for an empty sequence, and
\* for exactly one record reports count 1 and an average equal to that
\* record's price.
C8_SingleRecordSummary ==
    (pc \in {"displayed", "end"}) =>
        /\ (sorted_cars = <<>> => summary.kind = "no_cars")
        /\ (Len(sorted_cars) = 1 =>
               /\ summary.kind = "summary"
               /\ summary.count = 1
               /\ summary.total = sorted_cars[1].price)

\* C8 amended: display_results signals "no data" for an empty sequence and
\* divides nothing; for exactly one record it lists the record and prints
\* no summary; for two or more it prints the count and the average
\* (total / count).  _show_brand_statistics prints, for a brand with exactly
\* one clean record, count 1 and minimum = maximum = average = its price,
\* and no row for a brand without clean records.
C8_Summary ==
    /\ (pc \in {"displayed", "end"}) =>
          /\ (sorted_cars = <<>> => summary.kind = "no_cars")
          /\ (Len(sorted_cars) = 1 =>
                 /\ summary.kind = "listing"
                 /\ summary.shown = 1)
          /\ (Len(sorted_cars) > 1 =>
                 /\ summary.kind = "summary"
                 /\ summary.count = Len(sorted_cars)
                 /\ summary.total = Sum(Prices(sorted_cars)))
    /\ (pc = "end") =>
          \A b \in DOMAIN cars_by_brand :
              LET clean_cars == SelectSeq(cars_by_brand[b], IsClean)
              IN  /\ (clean_cars = <<>> => b \notin DOMAIN stats)
                  /\ (Len(clean_cars) = 1 =>
                         /\ b \in DOMAIN stats
                         /\ stats[b].count = 1
                         /\ stats[b].min_price = clean_cars[1].price
                         /\ stats[b].max_price = clean_cars[1].price
                         /\ stats[b].total = clean_cars[1].price)

\* one record displayed without a summary, and a brand row with count 1
C8_Witness ==
    /\ pc = "end" /\ Len(sorted_cars) = 1 /\ summary.kind = "listing"
    /\ \E b \in DOMAIN stats : stats[b].count = 1

\* a threshold that was typed and that float() / int() accepts
PriceGiven == price_filter.asked /\ price_filter.s # <<>>
                /\ FloatOfStr(price_filter.s).exc = ""
YearGiven  == year_filter.asked /\ year_filter.s # <<>>
                /\ IntOfStr(year_filter.s).exc = ""

\* C7: for a known or unknown brand and any two optional thresholds,
\* filter_cars returns exactly the clean-titled records of the brand's group
\* with price <= the ceiling (when given and parsable) and year >= the floor
\* (when given and parsable), in the order of the group; an absent or
\* unparsable threshold filters nothing, and the index is left as it was.
C7_FilterExact ==
    /\ (pc = "filter_return") =>
          cars_available =
              SelectSeq(GroupOf(cars_by_brand, selected_brand),
                        LAMBDA car :
                            /\ car.title_status = CleanVehicle
                            /\ PriceGiven =>
                                 IntLeFloat(car.price, FloatOfStr(price_filter.s).v)
                            /\ YearGiven =>
                                 car.year >= IntOfStr(year_filter.s).v)
    /\ cars_by_brand = organize_by_brand(cars_data)
    /\ cars_data = Accepted(file.rows)

\* both thresholds parsed, and together they kept some clean records of
\* the brand and dropped others
C7_Witness ==
    /\ pc = "filter_return" /\ PriceGiven /\ YearGiven
    /\ cars_available # <<>>
    /\ Len(cars_available) <
           Len(SelectSeq(GroupOf(cars_by_brand, selected_brand), IsClean))

QuitTyped == Lower(choice) = Quit

\* C9 as stated: the quit signal is accepted at every prompt, and after a
\* successful load the loop is left only by an explicit quit signal
\* ("q", or "n" at the search-again prompt).
C9_QuitAtEveryPrompt ==
    /\ (prompt # "none" /\ QuitTyped) => pc = "done"
    /\ (pc = "done" /\ load_result = "True") =>
          (QuitTyped \/ (prompt = "continue" /\ choice = <<"n">>))

\* the states C9 (amended) allows
C9_States ==
    \* a failed load ends run before any prompt
    /\ (load_result # "True") =>
          (pc \in {"idle", "reading", "loaded", "done"} /\ prompt = "none")
    \* the loop is left only at the brand or ranking prompt by the quit
    \* signal, or at the search-again prompt by an answer other than y / yes
    /\ (pc = "done" /\ load_result = "True") =>
          \/ prompt \in {"brand", "rank"} /\ QuitTyped
          \/ prompt = "continue" /\ choice \notin {<<"y">>, <<"y", "e", "s">>}
    \* the quit signal ends the session at the brand, ranking and
    \* search-again prompts
    /\ (prompt \in {"brand", "rank", "continue"} /\ QuitTyped) => pc = "done"
    \* any other line that selects nothing is asked again
    /\ (/\ prompt = "brand" /\ ~QuitTyped
        /\ \/ IntOfStr(choice).exc # ""
           \/ IntOfStr(choice).v \notin 1..Cardinality(DOMAIN cars_by_brand))
          => pc = "brand_prompt"
    /\ (prompt = "rank" /\ ~QuitTyped /\ choice \notin DOMAIN ranking_methods)
          => pc = "rank_prompt"
    \* an unparsable threshold, the quit signal included, skips its stage
    /\ (prompt = "price" /\ FloatOfStr(choice).exc # "") =>
          /\ pc = "year_prompt"
          /\ cars_available =
                 SelectSeq(GroupOf(cars_by_brand, selected_brand), IsClean)
    /\ (prompt = "year" /\ IntOfStr(choice).exc # "") =>
          (pc \in {"filter_return", "rank_prompt"} /\ cars_available # <<>>)

\* an empty filter result leads back to the brand prompt
C9_EmptyResultLoops ==
    (pc = "filter_return" /\ cars_available = <<>>) => pc' = "brand_prompt"

\* C9 amended: a failed load ends run before any prompt; after a successful
\* load an invalid menu choice is asked again, an unparsable threshold skips
\* its stage, and an empty filter result returns to the brand prompt; the
\* loop is left only by "q" at the brand or ranking prompt or by an answer
\* other than y / yes at the search-again prompt; at the two threshold
\* prompts "q" is an unparsable threshold and does not end the session.
C9_NoErrorEndsSession == []C9_States /\ [][C9_EmptyResultLoops]_vars

\* "q" typed at the price prompt: the stage is skipped, the session goes on
C9_Witness == prompt = "price" /\ choice = Quit /\ pc = "year_prompt"

\* the row _clean_row_data was last called with
LastRow == file.rows[row_idx]

\* a numeric conversion of the row fails: float(), int() of the strings, or
\* int() of the floats
ConversionFails(row) ==
    LET price   == PyFloat(Get(row, "price", IntVal(0)))
        mileage == PyFloat(Get(row, "mileage", IntVal(0)))
        year    == PyInt(Get(row, "year", IntVal(0)))
    IN  \/ price.exc # "" \/ mileage.exc # "" \/ year.exc # ""
        \/ IntOfFloat(price.v).exc # "" \/ IntOfFloat(mileage.v).exc # ""

\* C4: _clean_row_data never raises; it returns nothing when a numeric
\* conversion fails, and a record it returns has price >= 0, mileage >= 0,
\* 1900 <= year <= 2025 and a non-empty brand and model.
C4_NeverRaises ==
    (pc \in {"reading", "loaded"} /\ row_idx > 0) =>
        /\ cleaned.kind # "raise"
        /\ ConversionFails(LastRow) => cleaned.kind = "none"
        /\ cleaned.kind = "record" =>
              /\ cleaned.car.price >= 0 /\ cleaned.car.mileage >= 0
              /\ cleaned.car.year >= MinYear /\ cleaned.car.year <= MaxYear
              /\ cleaned.car.brand # <<>> /\ cleaned.car.model # <<>>

\* C5: a malformed row never aborts load_data: when the first load of an
\* existing file returns, every row was processed, accepted plus skipped
\* is the number of rows, and no exception ended the row loop.
C5_LoadNeverAborts ==
    (pc = "loaded" /\ file.exists /\ loads = 1) =>
        /\ load_error = ""
        /\ row_idx = Len(file.rows)
        /\ Len(cars_data) + skipped_rows = Len(file.rows)

\* C6: after any number of loads the collection and the index reflect the
\* most recent load alone: cars_data is what that load accepted, and each
\* brand's group is the records of that brand in cars_data order.
C6_ReflectsLastLoad ==
    (pc = "loaded" /\ load_result = "True") =>
        /\ cars_data = Accepted(file.rows)
        /\ DOMAIN cars_by_brand = {cars_data[i].brand : i \in 1..Len(cars_data)}
        /\ \A b \in DOMAIN cars_by_brand :
               cars_by_brand[b] = SelectSeq(cars_data, LAMBDA car : car.brand = b)

=============================================================================
